---- MODULE Spec2Model ----
(***************************************************************************)
(* A model of RemoteWiring/RemoteDevice.cpp: the pin/port state cache, the *)
(* public pin API, the report callbacks and the capability-response parse. *)
(***************************************************************************)
EXTENDS Integers, Sequences, FiniteSets, TLC

VARIABLES
    pin_mode,          \* _pin_mode[]: cached mode of every pin
    digital_port,      \* _digital_port[]: one byte per port
    subscribed_ports,  \* _subscribed_ports[]: one byte per port
    analog_pins,       \* _analog_pins[]: last reported analog values
    total_pins,        \* _total_pins
    analog_offset,     \* _analog_offset
    num_analog_pins,   \* _num_analog_pins
    data,              \* payload of the last capability response parsed
    call,              \* the operation that ran last, with its arguments
    ret,               \* what that operation returned
    wire,              \* the frames that operation handed to the protocol object
    events,            \* the notifications that operation raised, in order
    inflight,          \* capability responses received and not yet handled
    lastWritten,       \* history: state last written to a pin since it entered OUTPUT
    pc,                \* of every thread: the statement it stands before
    frame,             \* of every thread: arguments and locals of its call
    device_mutex,      \* _device_mutex: its owner and the depth of the ownership
    firmata,           \* _firmata: its lock, write buffer, connection, handlers
    history            \* history: what has happened on the connection so far

vars == << pin_mode, digital_port, subscribed_ports, analog_pins, total_pins,
           analog_offset, num_analog_pins, data, call, ret, wire, events,
           inflight, lastWritten, pc, frame, device_mutex, firmata, history >>

\* the variables of the threads, locks and transport
stepVars == << pc, frame, device_mutex, firmata, history >>

(***************************************************************************)
(* Bounds of the model.                                                    *)
(***************************************************************************)
\* the arrays hold pins 0..MaxSlot
MaxSlot == 3
\* pins 0..MaxPin are the pins and analog indices the callers and reports name
MaxPin == 1
\* a raw report byte has its bits at or above RawBits clear
RawBits == 2
\* analog values reported are 0..MaxAnalogValue
MaxAnalogValue == 1
\* longest capability payload, in bytes
MaxLen == 6
\* longest pin name, in characters
MaxNameLen == 3
\* the API calls the callers' threads make, statement by statement
MaxCalls == 2
\* the signals, responses and reports the transport delivers
MaxDeliveries == 4

(***************************************************************************)
(* PinMode and PinState values (RemoteDevice.h), and the parse terminator. *)
(***************************************************************************)
INPUT == 0
OUTPUT == 1
ANALOG == 2
PWM == 3
SERVO == 4
I2C == 6
IGNORED == 127
END_OF_PIN_VALUE == 127
LOW == 0
HIGH == 1
\* static_cast<uint16_t>( -1 ) and static_cast<uint8_t>( -1 )
INVALID16 == 65535
INVALID8 == 255

Slots == 0 .. MaxSlot
Pins == 0 .. MaxPin

(***************************************************************************)
(* uint8_t arithmetic.                                                     *)
(***************************************************************************)
\* 1 << n, for n up to 8
Powers == << 1, 2, 4, 8, 16, 32, 64, 128, 256 >>
Pow2(n) == Powers[n + 1]

Bit(b, i) == (b \div Pow2(i)) % 2

RECURSIVE FromBits(_, _)
FromBits(f, i) == IF i > 3 THEN 0 ELSE f[i] * Pow2(i) + FromBits(f, i + 1)

\* a | b, a & b and a ^ b on the two halves of a byte, bit by bit
Nibbles == 0 .. 15
HalfBits == 0 .. 3
OrTable ==
    [a \in Nibbles |-> [b \in Nibbles |->
        FromBits([i \in HalfBits |-> IF Bit(a, i) = 1 \/ Bit(b, i) = 1 THEN 1 ELSE 0], 0)]]
AndTable ==
    [a \in Nibbles |-> [b \in Nibbles |->
        FromBits([i \in HalfBits |-> IF Bit(a, i) = 1 /\ Bit(b, i) = 1 THEN 1 ELSE 0], 0)]]
XorTable ==
    [a \in Nibbles |-> [b \in Nibbles |->
        FromBits([i \in HalfBits |-> IF Bit(a, i) # Bit(b, i) THEN 1 ELSE 0], 0)]]

ByteOp(T, a, b) == 16 * T[a \div 16][b \div 16] + T[a % 16][b % 16]

BitOr(a, b) == ByteOp(OrTable, a, b)
BitAnd(a, b) == ByteOp(AndTable, a, b)
BitXor(a, b) == ByteOp(XorTable, a, b)
BitNot(a) == 255 - a

\* getPinMap: port = pin / 8, port_mask = 1 << ( pin % 8 )
PortOf(pin) == pin \div 8
MaskOf(pin) == Pow2(pin % 8)

\* the ports of the pins the arrays hold, and the port after them
Ports == 0 .. (PortOf(MaxSlot) + 1)

(***************************************************************************)
(* onPinCapabilityResponseReceived: the scan of the payload.  The index i  *)
(* is the code's (from 0); st carries the three counters and, as history,  *)
(* the highest index read, the terminators the scan stood on, and the pin  *)
(* count at the first ANALOG case executed.                                *)
(***************************************************************************)
ScanStart == [ total_pins |-> 0, analog_offset |-> 0, num_analog_pins |-> 0,
               maxRead |-> -1, terminators |-> 0, firstAnalog |-> -1 ]

Max(a, b) == IF a > b THEN a ELSE b

\* the switch on data[i]: the counters after it
ScanCase(st, mode) ==
    IF mode = ANALOG
    THEN [ st EXCEPT !.analog_offset = IF st.analog_offset = 0 THEN st.total_pins ELSE @,
                     !.num_analog_pins = @ + 1,
                     !.firstAnalog = IF @ = -1 THEN st.total_pins ELSE @ ]
    ELSE st

\* the switch on data[i]: how far i moves
ScanSkip(mode) ==
    IF mode = INPUT THEN 4
    ELSE IF mode \in {ANALOG, PWM, SERVO, I2C} THEN 2
    ELSE 1

RECURSIVE ScanWhile(_, _, _)
ScanWhile(d, i, st) ==
    IF i < Len(d)
    THEN LET b == d[i + 1]
             rd == [ st EXCEPT !.maxRead = Max(@, i) ]
         IN IF b # END_OF_PIN_VALUE
            THEN ScanWhile(d, i + ScanSkip(b), ScanCase(rd, b))
            \* the while ends on a terminator: _total_pins++, then the for's ++i
            ELSE LET nx == [ rd EXCEPT !.total_pins = @ + 1, !.terminators = @ + 1 ]
                 IN IF i + 1 < Len(d) THEN ScanWhile(d, i + 1, nx) ELSE nx
    \* the while ends on i >= size: _total_pins++, ++i, and the for ends
    ELSE [ st EXCEPT !.total_pins = @ + 1 ]

Scan(d) == IF 0 < Len(d) THEN ScanWhile(d, 0, ScanStart) ELSE ScanStart

(***************************************************************************)
(* initialize(): the arrays after the four memsets.                        *)
(***************************************************************************)
InitialCache ==
    [ pin_mode |-> [p \in Slots |-> OUTPUT],
      digital_port |-> [q \in Ports |-> 0],
      subscribed_ports |-> [q \in Ports |-> 0],
      analog_pins |-> [p \in Slots |-> 0],
      lastWritten |-> [p \in Slots |-> LOW],
      wire |-> << >> ]

\* the cache as the running operation sees it; nothing written yet
Cache ==
    [ pin_mode |-> pin_mode,
      digital_port |-> digital_port,
      subscribed_ports |-> subscribed_ports,
      analog_pins |-> analog_pins,
      lastWritten |-> lastWritten,
      wire |-> << >> ]

NoName == << >>
\* markers of the call record: no pin consulted, no argument or result
NoPin == 0 - 1
NoValue == 0 - 1

\* an operation returns: every variable of the device and of the observation
Finish(op, c, r, ev) ==
    /\ pin_mode' = c.pin_mode
    /\ digital_port' = c.digital_port
    /\ subscribed_ports' = c.subscribed_ports
    /\ analog_pins' = c.analog_pins
    /\ lastWritten' = c.lastWritten
    /\ wire' = c.wire
    /\ call' = op
    /\ ret' = r
    /\ events' = ev
    /\ UNCHANGED << total_pins, analog_offset, num_analog_pins, data, inflight >>
    /\ UNCHANGED stepVars

Reports == { "onDigitalReport", "onAnalogReport" }

\* The record of a call: its arguments (arg1, arg2, or name), the pin whose
\* cached mode it consults (pin), that mode as the call found it (was), and,
\* for an inbound report, whether the call before it was the same report with
\* the same arguments (again).
Op(name, a1, a2, str, consulted) ==
    [ op |-> name, arg1 |-> a1, arg2 |-> a2, name |-> str, pin |-> consulted,
      was |-> IF consulted = NoPin THEN NoValue ELSE pin_mode[consulted],
      again |-> name \in Reports /\ call.op = name /\ call.arg1 = a1 /\ call.arg2 = a2 ]

FirstOp(name) ==
    [ op |-> name, arg1 |-> NoValue, arg2 |-> NoValue, name |-> NoName, pin |-> NoPin,
      was |-> NoValue, again |-> FALSE ]

(***************************************************************************)
(* pinMode( uint8_t, PinMode )                                             *)
(***************************************************************************)
\* a subscription byte that gains the bit of an INPUT pin and never loses it
PinModeSubscribed_NeverClears(c, pin, mode) ==
    IF mode = INPUT
    THEN BitOr(c.subscribed_ports[PortOf(pin)], MaskOf(pin))
    ELSE c.subscribed_ports[PortOf(pin)]

\* the subscription byte of the pin's port after the call
PinModeSubscribed(c, pin, mode) ==
    LET port == PortOf(pin)
        port_mask == MaskOf(pin)
    IN IF mode = INPUT
       THEN BitOr(c.subscribed_ports[port], port_mask)
       ELSE IF c.pin_mode[pin] = INPUT
            THEN BitAnd(c.subscribed_ports[port], BitNot(port_mask))
            ELSE c.subscribed_ports[port]

\* a REPORT_DIGITAL_PIN frame after every SET_PIN_MODE frame
PinModeFrames_AlwaysReports(c, pin, mode) ==
    << <<"SET_PIN_MODE", pin, mode>>,
       <<"REPORT_DIGITAL_PIN", PortOf(pin) % 16, PinModeSubscribed(c, pin, mode)>> >>

\* the frames written between lock() and flush()
PinModeFrames(c, pin, mode) ==
    LET port == PortOf(pin)
    IN << <<"SET_PIN_MODE", pin, mode>> >>
       \o ( IF mode = INPUT \/ c.pin_mode[pin] = INPUT
            THEN << <<"REPORT_DIGITAL_PIN", port % 16, PinModeSubscribed(c, pin, mode)>> >>
            ELSE << >> )

\* a bit cleared by every pinMode( pin, OUTPUT ), the pin in OUTPUT or not
PinModeDigital_AlwaysClears(c, pin, mode) ==
    IF mode = OUTPUT
    THEN BitAnd(c.digital_port[PortOf(pin)], BitNot(MaskOf(pin)))
    ELSE c.digital_port[PortOf(pin)]

\* the port's value byte after the call: an entry into OUTPUT clears the bit
PinModeDigital(c, pin, mode) ==
    IF mode = OUTPUT /\ c.pin_mode[pin] # OUTPUT
    THEN BitAnd(c.digital_port[PortOf(pin)], BitNot(MaskOf(pin)))
    ELSE c.digital_port[PortOf(pin)]

PinModeCache(c, pin, mode) ==
    [ c EXCEPT !.subscribed_ports[PortOf(pin)] = PinModeSubscribed(c, pin, mode),
               !.wire = @ \o PinModeFrames(c, pin, mode),
               !.digital_port[PortOf(pin)] = PinModeDigital(c, pin, mode),
               !.pin_mode[pin] = mode,
               !.lastWritten[pin] = IF mode = OUTPUT /\ c.pin_mode[pin] = OUTPUT THEN @ ELSE LOW ]

pinMode(pin, mode) ==
    Finish(Op("pinMode", pin, mode, NoName, pin), PinModeCache(Cache, pin, mode), NoValue, << >>)

(***************************************************************************)
(* getPinMode( uint8_t )                                                   *)
(***************************************************************************)
getPinMode(pin) ==
    Finish(Op("getPinMode", pin, NoValue, NoName, pin), Cache, pin_mode[pin], << >>)

(***************************************************************************)
(* analogRead( uint8_t )                                                   *)
(***************************************************************************)
\* analog_pin_num = pin_ + _analog_offset, a uint8_t
AnalogPinNum(p) == (p + analog_offset) % 256

\* the mode check: TRUE when the call goes on to the lookup
AnalogReadProceeds(c, p) == c.pin_mode[AnalogPinNum(p)] \in {ANALOG, INPUT}

\* an escalation to ANALOG from OUTPUT as well as from INPUT
AnalogReadCache_FromOutput(c, p) ==
    IF c.pin_mode[AnalogPinNum(p)] \in {INPUT, OUTPUT}
    THEN PinModeCache(c, AnalogPinNum(p), ANALOG)
    ELSE c

AnalogReadCache(c, p) ==
    IF c.pin_mode[AnalogPinNum(p)] = INPUT
    THEN PinModeCache(c, AnalogPinNum(p), ANALOG)
    ELSE c

AnalogReadValue(c, p) ==
    IF ~AnalogReadProceeds(c, p) THEN INVALID16
    ELSE IF p < num_analog_pins THEN c.analog_pins[p]
    ELSE INVALID16

analogRead(p) ==
    /\ AnalogPinNum(p) \in Slots
    /\ Finish(Op("analogRead", p, NoValue, NoName, AnalogPinNum(p)),
              AnalogReadCache(Cache, p), AnalogReadValue(Cache, p), << >>)

(***************************************************************************)
(* analogWrite( uint8_t, uint16_t )                                        *)
(***************************************************************************)
AnalogWriteCache(c, pin, value) ==
    IF c.pin_mode[pin] = PWM
    THEN [ c EXCEPT !.wire = @ \o << <<"sendAnalog", pin, value>> >> ]
    ELSE IF c.pin_mode[pin] = OUTPUT
         THEN LET m == PinModeCache(c, pin, PWM)
              IN [ m EXCEPT !.pin_mode[pin] = PWM,
                            !.wire = @ \o << <<"sendAnalog", pin, value>> >> ]
         ELSE c

analogWrite(pin, value) ==
    Finish(Op("analogWrite", pin, value, NoName, pin), AnalogWriteCache(Cache, pin, value),
           NoValue, << >>)

(***************************************************************************)
(* digitalRead( uint8_t )                                                  *)
(***************************************************************************)
DigitalReadCache(c, pin) ==
    IF c.pin_mode[pin] = ANALOG THEN PinModeCache(c, pin, INPUT) ELSE c

DigitalReadValue(c, pin) ==
    IF BitAnd(c.digital_port[PortOf(pin)], MaskOf(pin)) > 0 THEN HIGH ELSE LOW

digitalRead(pin) ==
    Finish(Op("digitalRead", pin, NoValue, NoName, pin), DigitalReadCache(Cache, pin),
           DigitalReadValue(DigitalReadCache(Cache, pin), pin), << >>)

(***************************************************************************)
(* digitalWrite( uint8_t, PinState )                                       *)
(***************************************************************************)
\* a write that sets the bit and never clears it
DigitalWriteByte_NeverClears(old, pin, state) ==
    IF state # 0 THEN BitOr(old, MaskOf(pin)) ELSE old

\* _digital_port[port] |= port_mask, or &= ~port_mask
DigitalWriteByte(old, pin, state) ==
    IF state # 0
    THEN BitOr(old, MaskOf(pin))
    ELSE BitAnd(old, BitNot(MaskOf(pin)))

\* a write that goes through whatever the cached mode
DigitalWriteCache_AnyMode(c, pin, state) ==
    LET m == IF c.pin_mode[pin] = PWM THEN PinModeCache(c, pin, OUTPUT) ELSE c
        v == DigitalWriteByte(m.digital_port[PortOf(pin)], pin, state)
    IN [ m EXCEPT !.digital_port[PortOf(pin)] = v,
                  !.lastWritten[pin] = state,
                  !.wire = @ \o << <<"sendDigitalPort", PortOf(pin), v>> >> ]

DigitalWriteCache(c, pin, state) ==
    IF c.pin_mode[pin] \notin {OUTPUT, PWM}
    THEN c
    ELSE LET m == IF c.pin_mode[pin] = PWM THEN PinModeCache(c, pin, OUTPUT) ELSE c
             v == DigitalWriteByte(m.digital_port[PortOf(pin)], pin, state)
         IN [ m EXCEPT !.digital_port[PortOf(pin)] = v,
                       !.lastWritten[pin] = state,
                       !.wire = @ \o << <<"sendDigitalPort", PortOf(pin), v>> >> ]

digitalWrite(pin, state) ==
    Finish(Op("digitalWrite", pin, state, NoName, pin), DigitalWriteCache(Cache, pin, state),
           NoValue, << >>)

(***************************************************************************)
(* parsePinFromAnalogString.  A name is a sequence of characters.          *)
(***************************************************************************)
DigitChars == << "0", "1", "2", "3", "4", "5", "6", "7", "8", "9" >>
IsDigit(ch) == \E k \in 1 .. 10 : DigitChars[k] = ch
DigitValue(ch) == (CHOOSE k \in 1 .. 10 : DigitChars[k] = ch) - 1
IsSpace(ch) == ch = " "

RECURSIVE SkipSpaces(_)
SkipSpaces(t) == IF t # << >> /\ IsSpace(Head(t)) THEN SkipSpaces(Tail(t)) ELSE t

RECURSIVE ReadDigits(_, _)
ReadDigits(t, acc) ==
    IF t # << >> /\ IsDigit(Head(t))
    THEN ReadDigits(Tail(t), 10 * acc + DigitValue(Head(t)))
    ELSE acc

\* wcstol( t, nullptr, 10 ): leading white space, an optional sign, then the
\* digits up to the first character that is none; 0 when there is no digit
Wcstol(t) ==
    LET u == SkipSpaces(t)
    IN IF u # << >> /\ Head(u) = "-" THEN 0 - ReadDigits(Tail(u), 0)
       ELSE IF u # << >> /\ Head(u) = "+" THEN ReadDigits(Tail(u), 0)
       ELSE ReadDigits(u, 0)

parsePinFromAnalogString(str) ==
    IF Len(str) < 2 THEN INVALID8
    ELSE IF str[1] \notin {"a", "A"} THEN INVALID8
    ELSE LET parsed_num == Wcstol(Tail(str))
         IN IF parsed_num = 0 /\ str[2] # "0" THEN INVALID8
            ELSE parsed_num % 256

(***************************************************************************)
(* The overloads that take a pin name.                                     *)
(***************************************************************************)
\* analogRead( String ): the argument it hands to analogRead( uint8_t )
AnalogReadNamedArg(str) == (parsePinFromAnalogString(str) + analog_offset) % 256

\* pinMode( String, mode ) and getPinMode( String ): the pin they hand on
NamedPin(str) == (parsePinFromAnalogString(str) + analog_offset) % 256

analogReadNamed(str) ==
    IF parsePinFromAnalogString(str) = INVALID8
    THEN Finish(Op("analogRead(String)", NoValue, NoValue, str, NoPin), Cache, INVALID16, << >>)
    ELSE /\ AnalogPinNum(AnalogReadNamedArg(str)) \in Slots
         /\ Finish(Op("analogRead(String)", AnalogReadNamedArg(str), NoValue, str,
                      AnalogPinNum(AnalogReadNamedArg(str))),
                   AnalogReadCache(Cache, AnalogReadNamedArg(str)),
                   AnalogReadValue(Cache, AnalogReadNamedArg(str)), << >>)

getPinModeNamed(str) ==
    IF parsePinFromAnalogString(str) = INVALID8
    THEN Finish(Op("getPinMode(String)", NoValue, NoValue, str, NoPin), Cache, IGNORED, << >>)
    ELSE /\ NamedPin(str) \in Slots
         /\ Finish(Op("getPinMode(String)", NamedPin(str), NoValue, str, NamedPin(str)),
                   Cache, pin_mode[NamedPin(str)], << >>)

pinModeNamed(str, mode) ==
    IF parsePinFromAnalogString(str) = INVALID8
    THEN Finish(Op("pinMode(String)", NoValue, mode, str, NoPin), Cache, NoValue, << >>)
    ELSE /\ NamedPin(str) \in Slots
         /\ Finish(Op("pinMode(String)", NamedPin(str), mode, str, NamedPin(str)),
                   PinModeCache(Cache, NamedPin(str), mode), NoValue, << >>)

(***************************************************************************)
(* onDigitalReport and onAnalogReport                                      *)
(***************************************************************************)
\* port_val after port_val |= output_state
DigitalReportMerged(c, port, raw) ==
    BitOr(raw, BitAnd(BitNot(c.subscribed_ports[port]), c.digital_port[port]))

\* a loop that leaves at the first changed bit it finds
RECURSIVE DigitalReportEvents_FirstOnly(_, _, _, _)
DigitalReportEvents_FirstOnly(port, port_val, port_xor, i) ==
    IF port_xor > 0
    THEN IF port_xor % 2 = 1
         THEN << <<"DigitalPinUpdated", port * 8 + i,
                   IF Bit(port_val, i) > 0 THEN HIGH ELSE LOW>> >>
         ELSE DigitalReportEvents_FirstOnly(port, port_val, port_xor \div 2, i + 1)
    ELSE << >>

\* the while loop over port_xor, from bit i on
RECURSIVE DigitalReportEvents(_, _, _, _)
DigitalReportEvents(port, port_val, port_xor, i) ==
    IF port_xor > 0
    THEN ( IF port_xor % 2 = 1
           THEN << <<"DigitalPinUpdated", port * 8 + i,
                     IF Bit(port_val, i) > 0 THEN HIGH ELSE LOW>> >>
           ELSE << >> )
         \o DigitalReportEvents(port, port_val, port_xor \div 2, i + 1)
    ELSE << >>

onDigitalReport(port, raw) ==
    LET port_val == DigitalReportMerged(Cache, port, raw)
        port_xor == BitXor(port_val, digital_port[port])
    IN Finish(Op("onDigitalReport", port, raw, NoName, NoPin),
              [ Cache EXCEPT !.digital_port[port] = port_val ], NoValue,
              DigitalReportEvents(port, port_val, port_xor, 0))

\* a notification only when the value differs from the cached one
AnalogReportEvents_OnChange(c, pin, val) ==
    IF c.analog_pins[pin] = val THEN << >> ELSE << <<"AnalogPinUpdated", pin, val>> >>

\* AnalogPinUpdatedEvent( pin, val ), whatever the cache held
AnalogReportEvents(c, pin, val) == << <<"AnalogPinUpdated", pin, val>> >>

onAnalogReport(pin, val) ==
    Finish(Op("onAnalogReport", pin, val, NoName, NoPin),
           [ Cache EXCEPT !.analog_pins[pin] = val ], NoValue,
           AnalogReportEvents(Cache, pin, val))

(***************************************************************************)
(* onPinCapabilityResponseReceived: the scan, initialize(), DeviceReady.   *)
(***************************************************************************)
Negotiated(d) ==
    /\ data' = d
    /\ total_pins' = Scan(d).total_pins
    /\ analog_offset' = Scan(d).analog_offset
    /\ num_analog_pins' = Scan(d).num_analog_pins
    /\ pin_mode' = InitialCache.pin_mode
    /\ digital_port' = InitialCache.digital_port
    /\ subscribed_ports' = InitialCache.subscribed_ports
    /\ analog_pins' = InitialCache.analog_pins
    /\ lastWritten' = InitialCache.lastWritten
    /\ wire' = << >>
    /\ call' = FirstOp("onPinCapabilityResponseReceived")
    /\ ret' = NoValue
    /\ events' = << <<"DeviceReady", NoPin, NoValue>> >>
    /\ UNCHANGED stepVars

onPinCapabilityResponseReceived ==
    /\ inflight # << >>
    /\ Negotiated(Head(inflight))
    /\ inflight' = Tail(inflight)

(***************************************************************************)
(* Threads, the two locks and the protocol object.  The callers' threads   *)
(* run the API; the transport's delivery context runs the callbacks.       *)
(***************************************************************************)
Callers == { "a1", "a2" }
Transport == "rx"
Threads == Callers \cup { Transport }
NoThread == "none"

\* a thread between calls
IdleFrame ==
    [ op |-> "none", pin |-> NoPin, arg |-> NoValue, target |-> NoPin, mode |-> NoValue,
      back |-> "idle", reports |-> FALSE, flushed |-> FALSE, seen |-> << >>, left |-> 0,
      raised |-> 0 ]

\* std::recursive_mutex: free, or owned by one thread to some depth
Free == [ owner |-> NoThread, depth |-> 0 ]
CanLock(l, t) == l.owner \in { NoThread, t }
Lock(l, t) == [ l EXCEPT !.owner = t, !.depth = @ + 1 ]
Unlock(l, t) ==
    IF l.owner # t THEN l
    ELSE IF l.depth = 1 THEN [ l EXCEPT !.owner = NoThread, !.depth = 0 ]
    ELSE [ l EXCEPT !.depth = @ - 1 ]

\* the callbacks registered with the protocol object, by event
NoHandlers ==
    [ ready |-> 0, failed |-> 0, lost |-> 0, capability |-> 0,
      digital |-> 0, analog |-> 0, sysex |-> 0, string |-> 0 ]

\* the protocol object: its lock (nested: taken by a thread that held the
\* device mutex), the bytes written and not flushed, each with its writer,
\* begin() called, connectionReady(), startListening() called, and the
\* callbacks
NewFirmata(hasBegun, isReady) ==
    [ owner |-> NoThread, depth |-> 0, nested |-> FALSE, buffer |-> << >>,
      begun |-> hasBegun, ready |-> isReady, listening |-> FALSE, handlers |-> NoHandlers ]

\* nothing has happened yet
NoHistory ==
    [ calls |-> 0, deliveries |-> 0, queries |-> 0, asked |-> 0, ended |-> FALSE,
      everReady |-> FALSE, announced |-> [p \in Slots |-> TRUE] ]

\* no call in progress and no lock held, on a device constructed over a
\* fresh transport and negotiated once
AtRest ==
    /\ pc = [t \in Threads |-> "idle"]
    /\ frame = [t \in Threads |-> IdleFrame]
    /\ device_mutex = Free
    /\ firmata = [ NewFirmata(TRUE, TRUE) EXCEPT
                       !.listening = TRUE,
                       !.handlers = [ ready |-> 1, failed |-> 1, lost |-> 1, capability |-> 1,
                                      digital |-> 1, analog |-> 1, sysex |-> 1, string |-> 1 ] ]
    /\ history = [ NoHistory EXCEPT !.deliveries = 2, !.queries = 1, !.everReady = TRUE ]

(***************************************************************************)
(* The boards the device is first negotiated with: every pin INPUT and     *)
(* OUTPUT capable, pins first .. first+count-1 ANALOG capable as well.     *)
(***************************************************************************)
DigitalPin == << INPUT, 1, OUTPUT, 1 >>
AnalogPin == << INPUT, 1, OUTPUT, 1, ANALOG, 10 >>

RECURSIVE BoardFrom(_, _, _)
BoardFrom(p, first, count) ==
    IF p > MaxSlot THEN << >>
    ELSE ( IF first <= p /\ p < first + count THEN AnalogPin ELSE DigitalPin )
         \o << END_OF_PIN_VALUE >> \o BoardFrom(p + 1, first, count)

Boards == { BoardFrom(0, 1, 2) }

\* the state when DeviceReady has been raised for the first time, with the
\* capability responses rs received since
Ready(rs) ==
    \E d \in Boards :
        /\ data = d
        /\ total_pins = Scan(d).total_pins
        /\ analog_offset = Scan(d).analog_offset
        /\ num_analog_pins = Scan(d).num_analog_pins
        /\ pin_mode = InitialCache.pin_mode
        /\ digital_port = InitialCache.digital_port
        /\ subscribed_ports = InitialCache.subscribed_ports
        /\ analog_pins = InitialCache.analog_pins
        /\ lastWritten = InitialCache.lastWritten
        /\ wire = << >>
        /\ call = FirstOp("onPinCapabilityResponseReceived")
        /\ ret = NoValue
        /\ events = << <<"DeviceReady", NoPin, NoValue>> >>
        /\ inflight = rs
        /\ AtRest

Init == Ready(<< >>)

(***************************************************************************)
(* The inputs.                                                             *)
(***************************************************************************)
ModeArgs == { INPUT, OUTPUT, ANALOG, PWM }
NamedModeArgs == { INPUT, OUTPUT }
States == { LOW, HIGH }
RawBytes == 0 .. (Pow2(RawBits) - 1)
AnalogValues == 0 .. MaxAnalogValue

RECURSIVE SeqsUpTo(_, _)
SeqsUpTo(S, n) ==
    IF n = 0 THEN { << >> }
    ELSE LET shorter == SeqsUpTo(S, n - 1)
         IN shorter \cup { Append(t, x) : t \in shorter, x \in S }

\* the capability payloads of at most n bytes
CapBytes == { INPUT, OUTPUT, ANALOG, PWM, 10, END_OF_PIN_VALUE }
Payloads(n) == SeqsUpTo(CapBytes, n)

\* the pin names of at most n characters
NameChars == { "A", "a", "0", "1", "x", " " }
Names(n) == SeqsUpTo(NameChars, n)

(***************************************************************************)
(* The digital side in use: mode changes, digital calls, port reports.     *)
(***************************************************************************)
NextDigital ==
    \/ \E pin \in Pins, mode \in ModeArgs : pinMode(pin, mode)
    \/ \E pin \in Pins : digitalRead(pin)
    \/ \E pin \in Pins, state \in States : digitalWrite(pin, state)
    \/ \E port \in Ports, raw \in RawBytes : onDigitalReport(port, raw)

SpecDigital == Init /\ [][NextDigital]_vars

(***************************************************************************)
(* The analog side in use: mode changes, analog calls, analog reports.     *)
(***************************************************************************)
NextAnalog ==
    \/ \E pin \in Pins, mode \in ModeArgs : pinMode(pin, mode)
    \/ \E pin \in Pins : getPinMode(pin)
    \/ \E pin \in Pins : analogRead(pin)
    \/ \E pin \in Pins, value \in AnalogValues : analogWrite(pin, value)
    \/ \E pin \in Pins, val \in AnalogValues : onAnalogReport(pin, val)

SpecAnalog == Init /\ [][NextAnalog]_vars

(***************************************************************************)
(* The device called by pin name.                                          *)
(***************************************************************************)
NextName ==
    \/ \E str \in Names(MaxNameLen) : analogReadNamed(str)
    \/ \E str \in Names(MaxNameLen) : getPinModeNamed(str)
    \/ \E str \in Names(MaxNameLen), mode \in NamedModeArgs : pinModeNamed(str, mode)

SpecName == Init /\ [][NextName]_vars

(***************************************************************************)
(* The device re-negotiated: a capability response with any payload is in  *)
(* flight at the start, and is handled.                                    *)
(***************************************************************************)
InitCap == \E d \in Payloads(MaxLen) : Ready(<< d >>)

NextCap == onPinCapabilityResponseReceived

SpecCap == InitCap /\ [][NextCap]_vars

(***************************************************************************)
(* The whole numeric pin API in use, with the inbound reports.             *)
(***************************************************************************)
NextApi ==
    \/ \E pin \in Pins, mode \in ModeArgs : pinMode(pin, mode)
    \/ \E pin \in Pins : analogRead(pin)
    \/ \E pin \in Pins, value \in AnalogValues : analogWrite(pin, value)
    \/ \E pin \in Pins : digitalRead(pin)
    \/ \E pin \in Pins, state \in States : digitalWrite(pin, state)
    \/ \E port \in Ports, raw \in RawBytes : onDigitalReport(port, raw)
    \/ \E pin \in Pins, val \in AnalogValues : onAnalogReport(pin, val)

SpecApi == Init /\ [][NextApi]_vars

(***************************************************************************)
(* The calls that change a cached mode: pinMode, and the reads and writes  *)
(* whose auto-correction paths call it.                                    *)
(***************************************************************************)
NextModes ==
    \/ \E pin \in Pins, mode \in ModeArgs : pinMode(pin, mode)
    \/ \E pin \in Pins : analogRead(pin)
    \/ \E pin \in Pins, value \in AnalogValues : analogWrite(pin, value)
    \/ \E pin \in Pins : digitalRead(pin)
    \/ \E pin \in Pins, state \in States : digitalWrite(pin, state)

SpecModes == Init /\ [][NextModes]_vars

(***************************************************************************)
(* The two writes in use, with the mode changes.                           *)
(***************************************************************************)
NextWrite ==
    \/ \E pin \in Pins, mode \in ModeArgs : pinMode(pin, mode)
    \/ \E pin \in Pins, state \in States : digitalWrite(pin, state)
    \/ \E pin \in Pins, value \in AnalogValues : analogWrite(pin, value)

SpecWrite == Init /\ [][NextWrite]_vars

(***************************************************************************)
(* The calls statement by statement, for the threads that run them         *)
(* concurrently.  A statement is an action of the thread t that stands     *)
(* before it; a lock that is not free keeps the action disabled.           *)
(***************************************************************************)
cacheVars == << pin_mode, digital_port, subscribed_ports, analog_pins >>
capVars == << total_pins, analog_offset, num_analog_pins, data, inflight >>

\* t executes a statement: on to label with locals fr, raising ev
Step(t, label, fr, ev) ==
    /\ pc' = [pc EXCEPT ![t] = label]
    /\ frame' = [frame EXCEPT ![t] = IF label = "idle" THEN IdleFrame ELSE fr]
    /\ events' = ev
    /\ UNCHANGED << call, ret, wire, lastWritten >>

\* _firmata->lock() and unlock()
FirmataLock(t) ==
    [ Lock(firmata, t) EXCEPT !.nested = IF firmata.depth = 0 THEN device_mutex.owner = t ELSE @ ]
FirmataUnlock(t) ==
    [ Unlock(firmata, t) EXCEPT !.nested = IF Unlock(firmata, t).depth = 0 THEN FALSE ELSE @ ]

\* _firmata->write( item ) by t, and _firmata->flush()
Write(f, t, item) == [ f EXCEPT !.buffer = Append(@, << t, item >>) ]
Flush(f) == [ f EXCEPT !.buffer = << >> ]

\* t has written item and it is not flushed yet
Buffered(t, item) == \E k \in 1 .. Len(firmata.buffer) : firmata.buffer[k] = << t, item >>

\* the label after label in an order of statements
After(order, label) == order[(CHOOSE k \in 1 .. Len(order) : order[k] = label) + 1]

(***************************************************************************)
(* pinMode( uint8_t, PinMode ), statement by statement                     *)
(***************************************************************************)
\* the cached mode updated first, before the frame is written
PinModeAfter_ModeFirst(label) ==
    After(<< "pm_map", "pm_mutex", "pm_mode", "pm_lock", "pm_cmd", "pm_pin", "pm_modebyte",
             "pm_sub", "pm_mask", "pm_flush", "pm_unlock", "pm_clear", "pm_release" >>, label)

\* the protocol lock taken before the device mutex
PinModeAfter_LockFirst(label) ==
    After(<< "pm_map", "pm_lock", "pm_mutex", "pm_cmd", "pm_pin", "pm_modebyte", "pm_sub",
             "pm_mask", "pm_flush", "pm_unlock", "pm_clear", "pm_mode", "pm_release" >>, label)

\* the frame written without the protocol lock
PinModeAfter_NoLock(label) ==
    After(<< "pm_map", "pm_mutex", "pm_cmd", "pm_pin", "pm_modebyte", "pm_sub", "pm_mask",
             "pm_flush", "pm_clear", "pm_mode", "pm_release" >>, label)

\* the statements of pinMode in their order
PinModeAfter(label) ==
    After(<< "pm_map", "pm_mutex", "pm_lock", "pm_cmd", "pm_pin", "pm_modebyte", "pm_sub",
             "pm_mask", "pm_flush", "pm_unlock", "pm_clear", "pm_mode", "pm_release" >>, label)

\* t enters pinMode( pin, mode ) and will leave it for the statement back
EnterPinMode(t, fr, pin, mode, back) ==
    Step(t, PinModeAfter("pm_map"),
         [ fr EXCEPT !.target = pin, !.mode = mode, !.back = back,
                     !.reports = FALSE, !.flushed = FALSE ], << >>)

\* std::lock_guard<std::recursive_mutex> lock( _device_mutex )
pm_mutex(t) ==
    /\ pc[t] = "pm_mutex"
    /\ CanLock(device_mutex, t)
    /\ device_mutex' = Lock(device_mutex, t)
    /\ Step(t, PinModeAfter("pm_mutex"), frame[t], << >>)
    /\ UNCHANGED << cacheVars, capVars, firmata, history >>

pm_lock(t) ==
    /\ pc[t] = "pm_lock"
    /\ CanLock(firmata, t)
    /\ firmata' = FirmataLock(t)
    /\ Step(t, PinModeAfter("pm_lock"), frame[t], << >>)
    /\ UNCHANGED << cacheVars, capVars, device_mutex, history >>

\* the three writes of the SET_PIN_MODE frame
pm_cmd(t) ==
    /\ pc[t] = "pm_cmd"
    /\ firmata' = Write(firmata, t, "SET_PIN_MODE")
    /\ Step(t, PinModeAfter("pm_cmd"), frame[t], << >>)
    /\ UNCHANGED << cacheVars, capVars, device_mutex, history >>

pm_pin(t) ==
    /\ pc[t] = "pm_pin"
    /\ firmata' = Write(firmata, t, frame[t].target)
    /\ Step(t, PinModeAfter("pm_pin"), frame[t], << >>)
    /\ UNCHANGED << cacheVars, capVars, device_mutex, history >>

pm_modebyte(t) ==
    /\ pc[t] = "pm_modebyte"
    /\ firmata' = Write(firmata, t, frame[t].mode)
    /\ Step(t, PinModeAfter("pm_modebyte"), frame[t], << >>)
    /\ UNCHANGED << cacheVars, capVars, device_mutex, history >>

\* the subscription byte updated and the REPORT_DIGITAL_PIN byte written, on
\* the way into INPUT or out of it
pm_sub(t) ==
    LET pin == frame[t].target
        mode == frame[t].mode
        port == PortOf(pin)
        reports == mode = INPUT \/ pin_mode[pin] = INPUT
    IN /\ pc[t] = "pm_sub"
       /\ subscribed_ports' = [subscribed_ports EXCEPT ![port] = PinModeSubscribed(Cache, pin, mode)]
       /\ firmata' = IF reports
                     THEN Write(firmata, t, << "REPORT_DIGITAL_PIN", port % 16 >>)
                     ELSE firmata
       /\ Step(t, PinModeAfter("pm_sub"), [ frame[t] EXCEPT !.reports = reports ], << >>)
       /\ UNCHANGED << pin_mode, digital_port, analog_pins, capVars, device_mutex, history >>

pm_mask(t) ==
    /\ pc[t] = "pm_mask"
    /\ firmata' = IF frame[t].reports
                  THEN Write(firmata, t, subscribed_ports[PortOf(frame[t].target)])
                  ELSE firmata
    /\ Step(t, PinModeAfter("pm_mask"), frame[t], << >>)
    /\ UNCHANGED << cacheVars, capVars, device_mutex, history >>

pm_flush(t) ==
    /\ pc[t] = "pm_flush"
    /\ firmata' = Flush(firmata)
    /\ Step(t, PinModeAfter("pm_flush"),
            [ frame[t] EXCEPT !.flushed = Buffered(t, "SET_PIN_MODE") ], << >>)
    /\ UNCHANGED << cacheVars, capVars, device_mutex, history >>

pm_unlock(t) ==
    /\ pc[t] = "pm_unlock"
    /\ firmata' = FirmataUnlock(t)
    /\ Step(t, PinModeAfter("pm_unlock"), frame[t], << >>)
    /\ UNCHANGED << cacheVars, capVars, device_mutex, history >>

\* the bit cleared on the way into OUTPUT
pm_clear(t) ==
    LET pin == frame[t].target
    IN /\ pc[t] = "pm_clear"
       /\ digital_port' = [digital_port EXCEPT
                               ![PortOf(pin)] = PinModeDigital(Cache, pin, frame[t].mode)]
       /\ Step(t, PinModeAfter("pm_clear"), frame[t], << >>)
       /\ UNCHANGED << pin_mode, subscribed_ports, analog_pins, capVars, device_mutex,
                       firmata, history >>

\* _pin_mode[pin_] = mode_; history: whether the frame of this call was
\* flushed before
pm_mode(t) ==
    LET pin == frame[t].target
    IN /\ pc[t] = "pm_mode"
       /\ pin_mode' = [pin_mode EXCEPT ![pin] = frame[t].mode]
       /\ history' = [history EXCEPT !.announced[pin] = frame[t].flushed]
       /\ Step(t, PinModeAfter("pm_mode"), frame[t], << >>)
       /\ UNCHANGED << digital_port, subscribed_ports, analog_pins, capVars, device_mutex,
                       firmata >>

\* the end of the critical section, and the return
pm_release(t) ==
    /\ pc[t] = "pm_release"
    /\ device_mutex' = Unlock(device_mutex, t)
    /\ Step(t, frame[t].back, [ frame[t] EXCEPT !.back = "idle" ], << >>)
    /\ UNCHANGED << cacheVars, capVars, firmata, history >>

\* a caller's thread is free to make a call
MayCall(t) ==
    /\ t \in Callers
    /\ pc[t] = "idle"
    /\ history.everReady
    /\ history.calls < MaxCalls

Called == [history EXCEPT !.calls = @ + 1]

call_pinMode(t, pin, mode) ==
    /\ MayCall(t)
    /\ history' = Called
    /\ EnterPinMode(t, [ IdleFrame EXCEPT !.op = "pinMode", !.pin = pin, !.arg = mode ],
                    pin, mode, "idle")
    /\ UNCHANGED << cacheVars, capVars, device_mutex, firmata >>

(***************************************************************************)
(* getPinMode( uint8_t ), statement by statement                           *)
(***************************************************************************)
call_getPinMode(t, pin) ==
    /\ MayCall(t)
    /\ history' = Called
    /\ Step(t, "gp_mutex", [ IdleFrame EXCEPT !.op = "getPinMode", !.pin = pin ], << >>)
    /\ UNCHANGED << cacheVars, capVars, device_mutex, firmata >>

gp_mutex(t) ==
    /\ pc[t] = "gp_mutex"
    /\ CanLock(device_mutex, t)
    /\ device_mutex' = Lock(device_mutex, t)
    /\ Step(t, "gp_read", frame[t], << >>)
    /\ UNCHANGED << cacheVars, capVars, firmata, history >>

\* the mode read; history: whether the frame of the change that set it was
\* flushed before
gp_read(t) ==
    /\ pc[t] = "gp_read"
    /\ Step(t, "gp_release",
            [ frame[t] EXCEPT !.seen = << pin_mode[frame[t].pin],
                                          history.announced[frame[t].pin] >> ], << >>)
    /\ UNCHANGED << cacheVars, capVars, device_mutex, firmata, history >>

gp_release(t) ==
    /\ pc[t] = "gp_release"
    /\ device_mutex' = Unlock(device_mutex, t)
    /\ Step(t, "idle", frame[t], << >>)
    /\ UNCHANGED << cacheVars, capVars, firmata, history >>

(***************************************************************************)
(* The reads and writes, statement by statement                            *)
(***************************************************************************)
\* _firmata->sendDigitalPort and sendAnalog by t: the frame written and
\* flushed under the protocol lock
CanSend(t) == CanLock(firmata, t)
Send(t, items) ==
    Flush([ firmata EXCEPT !.buffer = @ \o [k \in 1 .. Len(items) |-> << t, items[k] >>] ])

call_digitalWrite(t, pin, state) ==
    /\ MayCall(t)
    /\ history' = Called
    /\ Step(t, "dw_mutex",
            [ IdleFrame EXCEPT !.op = "digitalWrite", !.pin = pin, !.arg = state ], << >>)
    /\ UNCHANGED << cacheVars, capVars, device_mutex, firmata >>

dw_mutex(t) ==
    /\ pc[t] = "dw_mutex"
    /\ CanLock(device_mutex, t)
    /\ device_mutex' = Lock(device_mutex, t)
    /\ Step(t, "dw_check", frame[t], << >>)
    /\ UNCHANGED << cacheVars, capVars, firmata, history >>

\* the mode check: on, into pinMode( pin_, OUTPUT ), or out
dw_check(t) ==
    LET pin == frame[t].pin
    IN /\ pc[t] = "dw_check"
       /\ IF pin_mode[pin] = OUTPUT THEN Step(t, "dw_bit", frame[t], << >>)
          ELSE IF pin_mode[pin] = PWM THEN EnterPinMode(t, frame[t], pin, OUTPUT, "dw_bit")
          ELSE Step(t, "dw_release", frame[t], << >>)
       /\ UNCHANGED << cacheVars, capVars, device_mutex, firmata, history >>

dw_bit(t) ==
    LET pin == frame[t].pin
    IN /\ pc[t] = "dw_bit"
       /\ digital_port' = [digital_port EXCEPT
               ![PortOf(pin)] = DigitalWriteByte(digital_port[PortOf(pin)], pin, frame[t].arg)]
       /\ Step(t, "dw_send", frame[t], << >>)
       /\ UNCHANGED << pin_mode, subscribed_ports, analog_pins, capVars, device_mutex,
                       firmata, history >>

dw_send(t) ==
    LET port == PortOf(frame[t].pin)
    IN /\ pc[t] = "dw_send"
       /\ CanSend(t)
       /\ firmata' = Send(t, << << "DIGITAL_MESSAGE", port >>, digital_port[port] >>)
       /\ Step(t, "dw_release", frame[t], << >>)
       /\ UNCHANGED << cacheVars, capVars, device_mutex, history >>

dw_release(t) ==
    /\ pc[t] = "dw_release"
    /\ device_mutex' = Unlock(device_mutex, t)
    /\ Step(t, "idle", frame[t], << >>)
    /\ UNCHANGED << cacheVars, capVars, firmata, history >>

call_analogWrite(t, pin, value) ==
    /\ MayCall(t)
    /\ history' = Called
    /\ Step(t, "aw_mutex",
            [ IdleFrame EXCEPT !.op = "analogWrite", !.pin = pin, !.arg = value ], << >>)
    /\ UNCHANGED << cacheVars, capVars, device_mutex, firmata >>

aw_mutex(t) ==
    /\ pc[t] = "aw_mutex"
    /\ CanLock(device_mutex, t)
    /\ device_mutex' = Lock(device_mutex, t)
    /\ Step(t, "aw_check", frame[t], << >>)
    /\ UNCHANGED << cacheVars, capVars, firmata, history >>

\* the mode check: on, into pinMode( pin_, PWM ), or out
aw_check(t) ==
    LET pin == frame[t].pin
    IN /\ pc[t] = "aw_check"
       /\ IF pin_mode[pin] = PWM THEN Step(t, "aw_send", frame[t], << >>)
          ELSE IF pin_mode[pin] = OUTPUT THEN EnterPinMode(t, frame[t], pin, PWM, "aw_mode")
          ELSE Step(t, "aw_release", frame[t], << >>)
       /\ UNCHANGED << cacheVars, capVars, device_mutex, firmata, history >>

\* _pin_mode[ pin_ ] = PWM, after pinMode has returned
aw_mode(t) ==
    /\ pc[t] = "aw_mode"
    /\ pin_mode' = [pin_mode EXCEPT ![frame[t].pin] = PWM]
    /\ Step(t, "aw_send", frame[t], << >>)
    /\ UNCHANGED << digital_port, subscribed_ports, analog_pins, capVars, device_mutex,
                    firmata, history >>

aw_send(t) ==
    /\ pc[t] = "aw_send"
    /\ CanSend(t)
    /\ firmata' = Send(t, << << "ANALOG_MESSAGE", frame[t].pin >>, frame[t].arg >>)
    /\ Step(t, "aw_release", frame[t], << >>)
    /\ UNCHANGED << cacheVars, capVars, device_mutex, history >>

aw_release(t) ==
    /\ pc[t] = "aw_release"
    /\ device_mutex' = Unlock(device_mutex, t)
    /\ Step(t, "idle", frame[t], << >>)
    /\ UNCHANGED << cacheVars, capVars, firmata, history >>

call_digitalRead(t, pin) ==
    /\ MayCall(t)
    /\ history' = Called
    /\ Step(t, "dr_mutex", [ IdleFrame EXCEPT !.op = "digitalRead", !.pin = pin ], << >>)
    /\ UNCHANGED << cacheVars, capVars, device_mutex, firmata >>

dr_mutex(t) ==
    /\ pc[t] = "dr_mutex"
    /\ CanLock(device_mutex, t)
    /\ device_mutex' = Lock(device_mutex, t)
    /\ Step(t, "dr_check", frame[t], << >>)
    /\ UNCHANGED << cacheVars, capVars, firmata, history >>

\* the mode check: on, or into pinMode( pin_, INPUT )
dr_check(t) ==
    LET pin == frame[t].pin
    IN /\ pc[t] = "dr_check"
       /\ IF pin_mode[pin] = ANALOG
          THEN EnterPinMode(t, frame[t], pin, INPUT, "dr_read")
          ELSE Step(t, "dr_read", frame[t], << >>)
       /\ UNCHANGED << cacheVars, capVars, device_mutex, firmata, history >>

\* the bit read and returned, the critical section left
dr_read(t) ==
    /\ pc[t] = "dr_read"
    /\ device_mutex' = Unlock(device_mutex, t)
    /\ Step(t, "idle", frame[t], << >>)
    /\ UNCHANGED << cacheVars, capVars, firmata, history >>

call_analogRead(t, pin) ==
    /\ MayCall(t)
    /\ AnalogPinNum(pin) \in Slots
    /\ history' = Called
    /\ Step(t, "ar_mutex", [ IdleFrame EXCEPT !.op = "analogRead", !.pin = pin ], << >>)
    /\ UNCHANGED << cacheVars, capVars, device_mutex, firmata >>

ar_mutex(t) ==
    /\ pc[t] = "ar_mutex"
    /\ CanLock(device_mutex, t)
    /\ device_mutex' = Lock(device_mutex, t)
    /\ Step(t, "ar_check", frame[t], << >>)
    /\ UNCHANGED << cacheVars, capVars, firmata, history >>

\* analog_pin_num and the mode check: on, into pinMode( analog_pin_num,
\* ANALOG ), or out with 0xFFFF
ar_check(t) ==
    LET pin == frame[t].pin
    IN /\ pc[t] = "ar_check"
       /\ AnalogPinNum(pin) \in Slots
       /\ IF pin_mode[AnalogPinNum(pin)] = ANALOG THEN Step(t, "ar_read", frame[t], << >>)
          ELSE IF pin_mode[AnalogPinNum(pin)] = INPUT
               THEN EnterPinMode(t, frame[t], AnalogPinNum(pin), ANALOG, "ar_read")
               ELSE Step(t, "ar_release", [ frame[t] EXCEPT !.seen = << INVALID16 >> ], << >>)
       /\ UNCHANGED << cacheVars, capVars, device_mutex, firmata, history >>

\* the bounds check and the lookup
ar_read(t) ==
    LET pin == frame[t].pin
    IN /\ pc[t] = "ar_read"
       /\ Step(t, "ar_release",
               [ frame[t] EXCEPT !.seen = << IF pin < num_analog_pins
                                             THEN analog_pins[pin]
                                             ELSE INVALID16 >> ], << >>)
       /\ UNCHANGED << cacheVars, capVars, device_mutex, firmata, history >>

ar_release(t) ==
    /\ pc[t] = "ar_release"
    /\ device_mutex' = Unlock(device_mutex, t)
    /\ Step(t, "idle", frame[t], << >>)
    /\ UNCHANGED << cacheVars, capVars, firmata, history >>

(***************************************************************************)
(* onConnectionReady, onConnectionFailed, onConnectionLost                 *)
(***************************************************************************)
\* the transport is free to deliver a signal, a response or a report
MayDeliver ==
    /\ pc[Transport] = "idle"
    /\ firmata.begun
    /\ history.deliveries < MaxDeliveries

Delivered == [history EXCEPT !.deliveries = @ + 1]

\* a callback has returned: the next registered callback of the event, or
\* back to where the event was raised
Returned(t, again, fr, ev) ==
    IF fr.left > 1
    THEN Step(t, again, [ fr EXCEPT !.left = @ - 1 ], ev)
    ELSE Step(t, fr.back, [ fr EXCEPT !.left = 0, !.back = "idle" ], ev)

\* the connection becomes ready, under the protocol object's lock, and
\* FirmataConnectionReadyEvent is raised
readySignal ==
    /\ MayDeliver
    /\ CanLock(firmata, Transport)
    /\ firmata.handlers.ready > 0
    /\ firmata' = [firmata EXCEPT !.ready = TRUE]
    /\ history' = Delivered
    /\ Step(Transport, "ocr_lock",
            [ IdleFrame EXCEPT !.op = "onConnectionReady", !.left = firmata.handlers.ready ],
            << >>)
    /\ UNCHANGED << cacheVars, capVars, device_mutex >>

ocr_lock(t) ==
    /\ pc[t] = "ocr_lock"
    /\ CanLock(firmata, t)
    /\ firmata' = FirmataLock(t)
    /\ Step(t, "ocr_listen", frame[t], << >>)
    /\ UNCHANGED << cacheVars, capVars, device_mutex, history >>

\* startListening(), and the capability handler registered
ocr_listen(t) ==
    /\ pc[t] = "ocr_listen"
    /\ firmata' = [firmata EXCEPT !.listening = TRUE, !.handlers.capability = @ + 1]
    /\ Step(t, "ocr_start", frame[t], << >>)
    /\ UNCHANGED << cacheVars, capVars, device_mutex, history >>

\* the three writes of the capability query
ocr_start(t) ==
    /\ pc[t] = "ocr_start"
    /\ firmata' = Write(firmata, t, "START_SYSEX")
    /\ Step(t, "ocr_query", frame[t], << >>)
    /\ UNCHANGED << cacheVars, capVars, device_mutex, history >>

ocr_query(t) ==
    /\ pc[t] = "ocr_query"
    /\ firmata' = Write(firmata, t, "CAPABILITY_QUERY")
    /\ Step(t, "ocr_end", frame[t], << >>)
    /\ UNCHANGED << cacheVars, capVars, device_mutex, history >>

ocr_end(t) ==
    /\ pc[t] = "ocr_end"
    /\ firmata' = Write(firmata, t, "END_SYSEX")
    /\ Step(t, "ocr_flush", frame[t], << >>)
    /\ UNCHANGED << cacheVars, capVars, device_mutex, history >>

\* flush(); history: a query is on the wire and the board will answer it
ocr_flush(t) ==
    /\ pc[t] = "ocr_flush"
    /\ firmata' = Flush(firmata)
    /\ history' = IF Buffered(t, "END_SYSEX")
                  THEN [history EXCEPT !.queries = @ + 1, !.asked = @ + 1]
                  ELSE history
    /\ Step(t, "ocr_unlock", frame[t], << >>)
    /\ UNCHANGED << cacheVars, capVars, device_mutex >>

ocr_unlock(t) ==
    /\ pc[t] = "ocr_unlock"
    /\ firmata' = FirmataUnlock(t)
    /\ Returned(t, "ocr_lock", frame[t], << >>)
    /\ UNCHANGED << cacheVars, capVars, device_mutex, history >>

\* FirmataConnectionFailedEvent is raised
failedSignal ==
    /\ MayDeliver
    /\ firmata.handlers.failed > 0
    /\ history' = Delivered
    /\ Step(Transport, "ocf_event",
            [ IdleFrame EXCEPT !.op = "onConnectionFailed", !.left = firmata.handlers.failed ],
            << >>)
    /\ UNCHANGED << cacheVars, capVars, device_mutex, firmata >>

ocf_event(t) ==
    /\ pc[t] = "ocf_event"
    /\ history' = [history EXCEPT !.ended = TRUE]
    /\ Returned(t, "ocf_event", frame[t], << <<"DeviceConnectionFailed", NoPin, NoValue>> >>)
    /\ UNCHANGED << cacheVars, capVars, device_mutex, firmata >>

\* FirmataConnectionLostEvent is raised
lostSignal ==
    /\ MayDeliver
    /\ firmata.handlers.lost > 0
    /\ history' = Delivered
    /\ Step(Transport, "ocl_event",
            [ IdleFrame EXCEPT !.op = "onConnectionLost", !.left = firmata.handlers.lost ],
            << >>)
    /\ UNCHANGED << cacheVars, capVars, device_mutex, firmata >>

ocl_event(t) ==
    /\ pc[t] = "ocl_event"
    /\ history' = [history EXCEPT !.ended = TRUE]
    /\ Returned(t, "ocl_event", frame[t], << <<"DeviceConnectionLost", NoPin, NoValue>> >>)
    /\ UNCHANGED << cacheVars, capVars, device_mutex, firmata >>

(***************************************************************************)
(* onPinCapabilityResponseReceived and initialize(), statement by          *)
(* statement                                                               *)
(***************************************************************************)
\* the board answers a query: PinCapabilityResponseReceivedEvent is raised
\* with payload d, and the handler copies it
capabilityResponse(d) ==
    /\ MayDeliver
    /\ firmata.listening
    /\ history.asked > 0
    /\ firmata.handlers.capability > 0
    /\ history' = [Delivered EXCEPT !.asked = @ - 1]
    /\ Step(Transport, "opc_reset",
            [ IdleFrame EXCEPT !.op = "onPinCapabilityResponseReceived", !.seen = d,
                               !.left = firmata.handlers.capability ], << >>)
    /\ UNCHANGED << cacheVars, capVars, device_mutex, firmata >>

opc_reset(t) ==
    /\ pc[t] = "opc_reset"
    /\ total_pins' = 0
    /\ analog_offset' = 0
    /\ num_analog_pins' = 0
    /\ Step(t, "opc_scan", frame[t], << >>)
    /\ UNCHANGED << cacheVars, data, inflight, device_mutex, firmata, history >>

opc_scan(t) ==
    /\ pc[t] = "opc_scan"
    /\ data' = frame[t].seen
    /\ total_pins' = Scan(frame[t].seen).total_pins
    /\ analog_offset' = Scan(frame[t].seen).analog_offset
    /\ num_analog_pins' = Scan(frame[t].seen).num_analog_pins
    /\ Step(t, "ini_register", frame[t], << >>)
    /\ UNCHANGED << cacheVars, inflight, device_mutex, firmata, history >>

\* the four report handlers registered
ini_register(t) ==
    /\ pc[t] = "ini_register"
    /\ firmata' = [firmata EXCEPT !.handlers.digital = @ + 1, !.handlers.analog = @ + 1,
                                  !.handlers.sysex = @ + 1, !.handlers.string = @ + 1]
    /\ Step(t, "ini_digital", frame[t], << >>)
    /\ UNCHANGED << cacheVars, capVars, device_mutex, history >>

\* the four memsets
ini_digital(t) ==
    /\ pc[t] = "ini_digital"
    /\ digital_port' = InitialCache.digital_port
    /\ Step(t, "ini_subscribed", frame[t], << >>)
    /\ UNCHANGED << pin_mode, subscribed_ports, analog_pins, capVars, device_mutex, firmata,
                    history >>

ini_subscribed(t) ==
    /\ pc[t] = "ini_subscribed"
    /\ subscribed_ports' = InitialCache.subscribed_ports
    /\ Step(t, "ini_analog", frame[t], << >>)
    /\ UNCHANGED << pin_mode, digital_port, analog_pins, capVars, device_mutex, firmata,
                    history >>

ini_analog(t) ==
    /\ pc[t] = "ini_analog"
    /\ analog_pins' = InitialCache.analog_pins
    /\ Step(t, "ini_mode", frame[t], << >>)
    /\ UNCHANGED << pin_mode, digital_port, subscribed_ports, capVars, device_mutex, firmata,
                    history >>

ini_mode(t) ==
    /\ pc[t] = "ini_mode"
    /\ pin_mode' = InitialCache.pin_mode
    /\ history' = [history EXCEPT !.announced = [p \in Slots |-> TRUE]]
    /\ Step(t, "opc_ready", frame[t], << >>)
    /\ UNCHANGED << digital_port, subscribed_ports, analog_pins, capVars, device_mutex,
                    firmata >>

\* DeviceReadyEvent()
opc_ready(t) ==
    /\ pc[t] = "opc_ready"
    /\ history' = [history EXCEPT !.everReady = TRUE]
    /\ Returned(t, "opc_reset", [ frame[t] EXCEPT !.raised = @ + 1 ],
                << <<"DeviceReady", NoPin, NoValue>> >>)
    /\ UNCHANGED << cacheVars, capVars, device_mutex, firmata >>

(***************************************************************************)
(* The report callbacks, statement by statement                            *)
(***************************************************************************)
\* AnalogValueEvent is raised: every registered handler calls onAnalogReport
analogReport(pin, val) ==
    /\ MayDeliver
    /\ firmata.handlers.analog > 0
    /\ history' = Delivered
    /\ Step(Transport, "oar_mutex",
            [ IdleFrame EXCEPT !.op = "onAnalogReport", !.pin = pin, !.arg = val,
                               !.left = firmata.handlers.analog ], << >>)
    /\ UNCHANGED << cacheVars, capVars, device_mutex, firmata >>

oar_mutex(t) ==
    /\ pc[t] = "oar_mutex"
    /\ CanLock(device_mutex, t)
    /\ device_mutex' = Lock(device_mutex, t)
    /\ Step(t, "oar_store", frame[t], << >>)
    /\ UNCHANGED << cacheVars, capVars, firmata, history >>

\* the value stored, the critical section left
oar_store(t) ==
    /\ pc[t] = "oar_store"
    /\ analog_pins' = [analog_pins EXCEPT ![frame[t].pin] = frame[t].arg]
    /\ device_mutex' = Unlock(device_mutex, t)
    /\ Step(t, "oar_event", frame[t], << >>)
    /\ UNCHANGED << pin_mode, digital_port, subscribed_ports, capVars, firmata, history >>

oar_event(t) ==
    /\ pc[t] = "oar_event"
    /\ Returned(t, "oar_mutex", [ frame[t] EXCEPT !.raised = @ + 1 ],
                AnalogReportEvents(Cache, frame[t].pin, frame[t].arg))
    /\ UNCHANGED << cacheVars, capVars, device_mutex, firmata, history >>

\* DigitalPortValueEvent is raised: every registered handler calls
\* onDigitalReport
digitalReport(port, raw) ==
    /\ MayDeliver
    /\ firmata.handlers.digital > 0
    /\ history' = Delivered
    /\ Step(Transport, "odr_mutex",
            [ IdleFrame EXCEPT !.op = "onDigitalReport", !.pin = port, !.arg = raw,
                               !.left = firmata.handlers.digital ], << >>)
    /\ UNCHANGED << cacheVars, capVars, device_mutex, firmata >>

odr_mutex(t) ==
    /\ pc[t] = "odr_mutex"
    /\ CanLock(device_mutex, t)
    /\ device_mutex' = Lock(device_mutex, t)
    /\ Step(t, "odr_merge", frame[t], << >>)
    /\ UNCHANGED << cacheVars, capVars, firmata, history >>

\* port_val and port_xor computed, the cache updated, the critical section
\* left
odr_merge(t) ==
    LET port == frame[t].pin
        port_val == DigitalReportMerged(Cache, port, frame[t].arg)
        port_xor == BitXor(port_val, digital_port[port])
    IN /\ pc[t] = "odr_merge"
       /\ digital_port' = [digital_port EXCEPT ![port] = port_val]
       /\ device_mutex' = Unlock(device_mutex, t)
       /\ Step(t, "odr_events", [ frame[t] EXCEPT !.seen = << port_val, port_xor >> ], << >>)
       /\ UNCHANGED << pin_mode, subscribed_ports, analog_pins, capVars, firmata, history >>

odr_events(t) ==
    /\ pc[t] = "odr_events"
    /\ Returned(t, "odr_mutex", frame[t],
                DigitalReportEvents(frame[t].pin, frame[t].seen[1], frame[t].seen[2], 0))
    /\ UNCHANGED << cacheVars, capVars, device_mutex, firmata, history >>

(***************************************************************************)
(* The two constructors, statement by statement                            *)
(***************************************************************************)
\* RemoteDevice( IStream ): the three connection handlers registered
cs_register(t) ==
    /\ pc[t] = "cs_register"
    /\ firmata' = [firmata EXCEPT !.handlers.ready = @ + 1, !.handlers.failed = @ + 1,
                                  !.handlers.lost = @ + 1]
    /\ Step(t, "cs_begin", frame[t], << >>)
    /\ UNCHANGED << cacheVars, capVars, device_mutex, history >>

\* _firmata->begin( serial_connection_ )
cs_begin(t) ==
    /\ pc[t] = "cs_begin"
    /\ firmata' = [firmata EXCEPT !.begun = TRUE]
    /\ Step(t, "idle", frame[t], << >>)
    /\ UNCHANGED << cacheVars, capVars, device_mutex, history >>

\* RemoteDevice( UwpFirmata ): _firmata->lock()
ct_lock(t) ==
    /\ pc[t] = "ct_lock"
    /\ CanLock(firmata, t)
    /\ firmata' = FirmataLock(t)
    /\ Step(t, "ct_check", frame[t], << >>)
    /\ UNCHANGED << cacheVars, capVars, device_mutex, history >>

\* connectionReady(): into onConnectionReady(), or the ready and failed
\* handlers registered
ct_check(t) ==
    /\ pc[t] = "ct_check"
    /\ IF firmata.ready
       THEN /\ Step(t, "ocr_lock", [ frame[t] EXCEPT !.left = 1, !.back = "ct_lost" ], << >>)
            /\ UNCHANGED firmata
       ELSE /\ Step(t, "ct_lost", frame[t], << >>)
            /\ firmata' = [firmata EXCEPT !.handlers.ready = @ + 1, !.handlers.failed = @ + 1]
    /\ UNCHANGED << cacheVars, capVars, device_mutex, history >>

ct_lost(t) ==
    /\ pc[t] = "ct_lost"
    /\ firmata' = [firmata EXCEPT !.handlers.lost = @ + 1]
    /\ Step(t, "ct_unlock", frame[t], << >>)
    /\ UNCHANGED << cacheVars, capVars, device_mutex, history >>

ct_unlock(t) ==
    /\ pc[t] = "ct_unlock"
    /\ firmata' = FirmataUnlock(t)
    /\ Step(t, "idle", frame[t], << >>)
    /\ UNCHANGED << cacheVars, capVars, device_mutex, history >>

(***************************************************************************)
(* The device in use by several threads, from a device at rest.            *)
(***************************************************************************)
\* a statement of an API call
ApiStep(t) ==
    \/ pm_mutex(t) \/ pm_lock(t) \/ pm_cmd(t) \/ pm_pin(t) \/ pm_modebyte(t)
    \/ pm_sub(t) \/ pm_mask(t) \/ pm_flush(t) \/ pm_unlock(t) \/ pm_clear(t)
    \/ pm_mode(t) \/ pm_release(t)
    \/ gp_mutex(t) \/ gp_read(t) \/ gp_release(t)
    \/ dw_mutex(t) \/ dw_check(t) \/ dw_bit(t) \/ dw_send(t) \/ dw_release(t)
    \/ aw_mutex(t) \/ aw_check(t) \/ aw_mode(t) \/ aw_send(t) \/ aw_release(t)
    \/ dr_mutex(t) \/ dr_check(t) \/ dr_read(t)
    \/ ar_mutex(t) \/ ar_check(t) \/ ar_read(t) \/ ar_release(t)

\* a call made
ApiCall(t) ==
    \/ \E pin \in Pins, mode \in ModeArgs : call_pinMode(t, pin, mode)
    \/ \E pin \in Pins : call_getPinMode(t, pin)
    \/ \E pin \in Pins, state \in States : call_digitalWrite(t, pin, state)
    \/ \E pin \in Pins, value \in AnalogValues : call_analogWrite(t, pin, value)
    \/ \E pin \in Pins : call_digitalRead(t, pin)
    \/ \E pin \in Pins : call_analogRead(t, pin)

\* a statement of onConnectionReady
ReadyStep(t) ==
    \/ ocr_lock(t) \/ ocr_listen(t) \/ ocr_start(t) \/ ocr_query(t) \/ ocr_end(t)
    \/ ocr_flush(t) \/ ocr_unlock(t)

\* a statement of the capability handler
CapabilityStep(t) ==
    \/ opc_reset(t) \/ opc_scan(t) \/ ini_register(t) \/ ini_digital(t)
    \/ ini_subscribed(t) \/ ini_analog(t) \/ ini_mode(t) \/ opc_ready(t)

\* a statement of a report callback
ReportStep(t) ==
    \/ oar_mutex(t) \/ oar_store(t) \/ oar_event(t)
    \/ odr_mutex(t) \/ odr_merge(t) \/ odr_events(t)

NextThreads ==
    \/ \E t \in Callers : ApiCall(t)
    \/ \E t \in Callers : ApiStep(t)
    \/ readySignal
    \/ ReadyStep(Transport)

SpecThreads == Init /\ [][NextThreads]_vars

(***************************************************************************)
(* The connection: a device under construction by a caller's thread, the   *)
(* signals, responses and reports of the transport, and the callers' mode  *)
(* changes and reads once DeviceReady has been raised.                     *)
(***************************************************************************)
\* the thread that constructs the device and then uses it
Owner == "a1"

\* the arrays before initialize() has run: every byte g
Uninitialized(g) ==
    /\ pin_mode = [p \in Slots |-> g]
    /\ digital_port = [q \in Ports |-> g]
    /\ subscribed_ports = [q \in Ports |-> g]
    /\ analog_pins = [p \in Slots |-> g]
    /\ lastWritten = [p \in Slots |-> LOW]
    /\ total_pins = 0
    /\ analog_offset = 0
    /\ num_analog_pins = 0
    /\ data = << >>
    /\ inflight = << >>
    /\ call = FirstOp("RemoteDevice")
    /\ ret = NoValue
    /\ wire = << >>
    /\ events = << >>

\* RemoteDevice( IStream ) entered, over a transport that has not begun
ConstructOverStream ==
    /\ pc = [t \in Threads |-> IF t = Owner THEN "cs_register" ELSE "idle"]
    /\ firmata = NewFirmata(FALSE, FALSE)

\* RemoteDevice( UwpFirmata ) entered, with an endpoint that is ready or not
ConstructOverFirmata ==
    /\ pc = [t \in Threads |-> IF t = Owner THEN "ct_lock" ELSE "idle"]
    /\ \E isReady \in BOOLEAN : firmata = NewFirmata(TRUE, isReady)

InitConnect ==
    /\ \E g \in { LOW, HIGH } : Uninitialized(g)
    /\ ConstructOverStream \/ ConstructOverFirmata
    /\ frame = [t \in Threads |-> [ IdleFrame EXCEPT !.op = IF t = Owner THEN "RemoteDevice"
                                                                  ELSE "none" ]]
    /\ device_mutex = Free
    /\ history = NoHistory

\* a statement of a constructor
ConstructorStep(t) ==
    \/ cs_register(t) \/ cs_begin(t)
    \/ ct_lock(t) \/ ct_check(t) \/ ct_lost(t) \/ ct_unlock(t)

\* a statement of pinMode or getPinMode
ModeStep(t) ==
    \/ pm_mutex(t) \/ pm_lock(t) \/ pm_cmd(t) \/ pm_pin(t) \/ pm_modebyte(t)
    \/ pm_sub(t) \/ pm_mask(t) \/ pm_flush(t) \/ pm_unlock(t) \/ pm_clear(t)
    \/ pm_mode(t) \/ pm_release(t)
    \/ gp_mutex(t) \/ gp_read(t) \/ gp_release(t)

NextConnect ==
    \/ ConstructorStep(Owner)
    \/ readySignal
    \/ failedSignal
    \/ lostSignal
    \/ \E t \in Threads : ReadyStep(t)
    \/ ocf_event(Transport)
    \/ ocl_event(Transport)
    \/ \E d \in Boards : capabilityResponse(d)
    \/ CapabilityStep(Transport)
    \/ \E pin \in Pins, val \in AnalogValues : analogReport(pin, val)
    \/ \E port \in Ports, raw \in RawBytes : digitalReport(port, raw)
    \/ ReportStep(Transport)
    \/ \E pin \in Pins, mode \in ModeArgs : call_pinMode(Owner, pin, mode)
    \/ \E pin \in Pins : call_getPinMode(Owner, pin)
    \/ ModeStep(Owner)

SpecConnect == InitConnect /\ [][NextConnect]_vars

(***************************************************************************)
(* The claims about the digital side, checked under SpecDigital.           *)
(***************************************************************************)
PinBit(ports, pin) == Bit(ports[PortOf(pin)], pin % 8)

ReportedBit(raw, s, d, b) ==
    IF Bit(raw, b) = 1 \/ (Bit(s, b) = 0 /\ Bit(d, b) = 1) THEN 1 ELSE 0

C8_ReportStep ==
    call'.op = "onDigitalReport" =>
        LET port == call'.arg1
            raw == call'.arg2
            d == digital_port[port]
            s == subscribed_ports[port]
            raised == 1 .. Len(events')
        IN \* no two notifications for the same pin, each for a pin of the port
           /\ \A j, k \in raised : j # k => events'[j][2] # events'[k][2]
           /\ \A k \in raised : PortOf(events'[k][2]) = port
           \* bit by bit: the new cached bit, and a notification with the new
           \* state exactly when the bit differs from the cached one
           /\ \A b \in 0 .. 7 :
                 LET now == ReportedBit(raw, s, d, b)
                 IN /\ Bit(digital_port'[port], b) = now
                    /\ (now # Bit(d, b)) =
                           (\E k \in raised : events'[k][2] = port * 8 + b)
                    /\ \A k \in raised :
                           events'[k][2] = port * 8 + b
                               => events'[k] = <<"DigitalPinUpdated", port * 8 + b, now>>
           /\ \A q \in Ports \ {port} : digital_port'[q] = digital_port[q]

C8_DigitalReportNotifiesEachChange == [][C8_ReportStep]_vars

\* C8 witness: a report on port 1 has changed two bits and raised the two
\* notifications, for pins 8 and 9.
C8_Witness ==
    /\ call.op = "onDigitalReport"
    /\ call.arg1 = 1
    /\ Len(events) = 2
    /\ { events[1][2], events[2][2] } = { 8, 9 }

\* C9: on a pin whose cached mode is OUTPUT, digitalWrite(p, s) followed at
\* once by digitalRead(p) returns s, for HIGH and for LOW; the cached mode
\* stays OUTPUT and the bits of the other pins are what they were.
C9_WriteStep ==
    (call'.op = "digitalWrite" /\ pin_mode[call'.arg1] = OUTPUT) =>
        /\ pin_mode' = pin_mode
        /\ \A p \in 0 .. (8 * (PortOf(MaxSlot) + 2) - 1) :
              p # call'.arg1 => PinBit(digital_port', p) = PinBit(digital_port, p)

C9_ReadStep ==
    ( /\ call.op = "digitalWrite"
      /\ call.was = OUTPUT
      /\ call'.op = "digitalRead"
      /\ call'.arg1 = call.arg1 ) =>
        /\ ret' = call.arg2
        /\ pin_mode'[call.arg1] = OUTPUT
        /\ pin_mode' = pin_mode
        /\ digital_port' = digital_port

C9_WriteThenReadRoundTrip == [][C9_WriteStep /\ C9_ReadStep]_vars

\* C9 witness: digitalRead has returned HIGH for an OUTPUT pin that another
\* pin of the port holds low beside, HIGH being the state last written to it.
C9_Witness ==
    /\ call.op = "digitalRead"
    /\ call.was = OUTPUT
    /\ ret = HIGH
    /\ lastWritten[call.arg1] = HIGH
    /\ \E p \in Pins : p # call.arg1 /\ PinBit(digital_port, p) = 0

(***************************************************************************)
(* The claims about the analog side, checked under SpecAnalog.             *)
(***************************************************************************)
CacheUnchanged ==
    /\ pin_mode' = pin_mode
    /\ digital_port' = digital_port
    /\ subscribed_ports' = subscribed_ports
    /\ analog_pins' = analog_pins

\* C6, as claimed: analogRead(p) on a pin p whose cached mode is neither
\* ANALOG nor INPUT returns 0xFFFF, changes no cached mode, digital value,
\* subscription mask or analog value, and writes no protocol bytes.
C6_Original ==
    [][ (call'.op = "analogRead" /\ pin_mode[call'.arg1] \notin {ANALOG, INPUT}) =>
            (ret' = INVALID16 /\ CacheUnchanged /\ wire' = << >>) ]_vars

\* C6, amended: analogRead(p) returns 0xFFFF, changes nothing of the cache
\* and writes no protocol bytes when the cached mode of pin p + analog_offset,
\* the pin the call consults, is neither ANALOG nor INPUT.
C6_AnalogReadRejectsOtherModes ==
    [][ (call'.op = "analogRead"
             /\ pin_mode[(call'.arg1 + analog_offset) % 256] \notin {ANALOG, INPUT}) =>
            (ret' = INVALID16 /\ CacheUnchanged /\ wire' = << >>) ]_vars

\* C6 witness: analogRead has returned 0xFFFF on finding the pin it consults
\* in PWM mode, with a nonzero analog value cached for its argument.
C6_Witness ==
    /\ call.op = "analogRead"
    /\ call.was = PWM
    /\ call.pin = call.arg1 + analog_offset
    /\ analog_pins[call.arg1] # 0
    /\ ret = INVALID16

\* C10: every inbound analog report (pin, value) stores value as the pin's
\* cached analog value and raises one analog-pin-changed notification with
\* (pin, value), also when it repeats the report handled just before it.
C10_AnalogReportAlwaysNotifies ==
    [][ call'.op = "onAnalogReport" =>
            /\ analog_pins'[call'.arg1] = call'.arg2
            /\ \A p \in Slots \ {call'.arg1} : analog_pins'[p] = analog_pins[p]
            /\ events' = << <<"AnalogPinUpdated", call'.arg1, call'.arg2>> >> ]_vars

\* C10 witness: the report handled last repeated the one before it, the
\* value was the cached one already, and its notification was raised.
C10_Witness ==
    /\ call.op = "onAnalogReport"
    /\ call.again
    /\ analog_pins[call.arg1] = call.arg2
    /\ events = << <<"AnalogPinUpdated", call.arg1, call.arg2>> >>

(***************************************************************************)
(* The claims about the calls by pin name, checked under SpecName.         *)
(***************************************************************************)
NamedOps == { "analogRead(String)", "getPinMode(String)", "pinMode(String)" }

\* "A<k>" or "a<k>": the letter, then one decimal digit or more and no other
\* character
WellFormedName(str) ==
    /\ Len(str) >= 2
    /\ str[1] \in {"a", "A"}
    /\ \A k \in 2 .. Len(str) : IsDigit(str[k])

\* the k of a well-formed name
NameIndex(str) == ReadDigits(Tail(str), 0)

\* C4: for every overload that takes a name and every well-formed name
\* "A<k>" or "a<k>", the pin whose cached mode the call consults or changes
\* is analog_offset + k: the offset is added once.
C4_NamedPinIsOffsetPlusIndex ==
    (call.op \in NamedOps /\ WellFormedName(call.name)) =>
        call.pin = analog_offset + NameIndex(call.name)

\* C5: every malformed name (wrong first character, a character that is no
\* digit in the suffix, an empty suffix, the empty string) makes
\* parsePinFromAnalogString return the failure value, and the overload
\* called with it changes nothing of the cache and writes no protocol bytes;
\* analogRead returns 0xFFFF and getPinMode returns IGNORED.
C5_MalformedNamesRejected ==
    [][ (call'.op \in NamedOps /\ ~WellFormedName(call'.name)) =>
            /\ parsePinFromAnalogString(call'.name) = INVALID8
            /\ CacheUnchanged
            /\ wire' = << >>
            /\ call'.op = "analogRead(String)" => ret' = INVALID16
            /\ call'.op = "getPinMode(String)" => ret' = IGNORED ]_vars

(***************************************************************************)
(* The claims about the capability parse, checked under SpecCap.           *)
(***************************************************************************)
\* A payload as the protocol frames it: per-pin lists of (mode, resolution)
\* byte pairs, each list ended by 0x7F.  open: a list has begun and has not
\* been ended.
RECURSIVE Framed(_, _)
Framed(d, open) ==
    IF d = << >> THEN ~open
    ELSE IF Head(d) = END_OF_PIN_VALUE THEN Framed(Tail(d), FALSE)
    ELSE Len(d) >= 2 /\ Framed(Tail(Tail(d)), TRUE)

\* the 0x7F terminators of a framed payload
RECURSIVE FramedPins(_)
FramedPins(d) ==
    IF d = << >> THEN 0
    ELSE IF Head(d) = END_OF_PIN_VALUE THEN 1 + FramedPins(Tail(d))
    ELSE FramedPins(Tail(Tail(d)))

\* the ANALOG descriptors of a framed payload
RECURSIVE FramedAnalogs(_)
FramedAnalogs(d) ==
    IF d = << >> THEN 0
    ELSE IF Head(d) = END_OF_PIN_VALUE THEN FramedAnalogs(Tail(d))
    ELSE (IF Head(d) = ANALOG THEN 1 ELSE 0) + FramedAnalogs(Tail(Tail(d)))

ExamplePayload == << 0, 1, 2, 10, 127, 127 >>

\* C2: for a payload of per-pin (mode, resolution) lists, each ended by 0x7F,
\* the parse leaves total_pins at the number of terminators and
\* num_analog_pins at the number of ANALOG descriptors; the payload
\* [0x00,0x01, 0x02,0x0A, 0x7F, 0x7F] gives 2 pins, 1 analog pin, offset 0.
C2_ParseCountsPinsAndAnalogs ==
    /\ Framed(data, FALSE) =>
          /\ total_pins = FramedPins(data)
          /\ num_analog_pins = FramedAnalogs(data)
    /\ data = ExamplePayload =>
          (total_pins = 2 /\ num_analog_pins = 1 /\ analog_offset = 0)

\* C3: when the parse has met an ANALOG capability, analog_offset is the
\* index of the first pin at which it met one, pin 0 included; an ANALOG
\* capability of a later pin does not change it.
C3_OffsetIsFirstAnalogPin ==
    Scan(data).firstAnalog # -1 => analog_offset = Scan(data).firstAnalog

\* C7: for every payload, one that ends before a terminator included, the
\* scan reads no byte at or past the payload's length and leaves total_pins
\* at the number of descriptors it found ended by a terminator; a trailing
\* descriptor with no terminator is not counted.
C7_ScanBoundedCountsCompleteOnly ==
    /\ Scan(data).maxRead < Len(data)
    /\ total_pins = Scan(data).terminators

(***************************************************************************)
(* The claims about the writes, checked under SpecWrite.                   *)
(***************************************************************************)
\* C11: digitalWrite on a pin whose cached mode is neither OUTPUT nor PWM,
\* and analogWrite on a pin whose cached mode is neither PWM nor OUTPUT,
\* change no cached pin mode, digital value, subscription mask or analog
\* value and write no protocol bytes.
C11_WrongModeWritesAreNoOps ==
    [][ (call'.op \in {"digitalWrite", "analogWrite"}
             /\ pin_mode[call'.arg1] \notin {OUTPUT, PWM}) =>
            (CacheUnchanged /\ wire' = << >>) ]_vars

\* C11 witness: digitalWrite( p, HIGH ) has returned on finding p in INPUT
\* mode, with nothing written and the bit of p low.
C11_Witness ==
    /\ call.op = "digitalWrite"
    /\ call.was = INPUT
    /\ call.arg2 = HIGH
    /\ wire = << >>
    /\ PinBit(digital_port, call.arg1) = 0

(***************************************************************************)
(* The claims about pinMode.                                               *)
(***************************************************************************)
\* the pins of the ports the model holds
PortPins == 0 .. (8 * (PortOf(MaxSlot) + 2) - 1)

\* the pinMode( p, m ) call a step makes, << p, m >>, directly or on the
\* auto-correction path of the operation; << >> when it makes none
PinModeCall ==
    LET p == call'.pin
    IN IF call'.op = "pinMode" THEN << call'.arg1, call'.arg2 >>
       ELSE IF call'.op = "analogRead" /\ pin_mode[p] = INPUT THEN << p, ANALOG >>
       ELSE IF call'.op = "analogWrite" /\ pin_mode[p] = OUTPUT THEN << p, PWM >>
       ELSE IF call'.op = "digitalRead" /\ pin_mode[p] = ANALOG THEN << p, INPUT >>
       ELSE IF call'.op = "digitalWrite" /\ pin_mode[p] = PWM THEN << p, OUTPUT >>
       ELSE << >>

\* the frames of a step that are none of sendAnalog or sendDigitalPort
ModeFrames == SelectSeq(wire', LAMBDA f : f[1] \in {"SET_PIN_MODE", "REPORT_DIGITAL_PIN"})

\* C15: every pinMode( p, m ) call writes the frame SET_PIN_MODE, p, m first;
\* a REPORT_DIGITAL_PIN frame for p's port with the updated mask follows
\* exactly when m is INPUT (p's bit set in the mask) or p's cached mode was
\* INPUT and m is not (p's bit cleared); otherwise no REPORT_DIGITAL_PIN
\* frame is written and the masks are unchanged.  The bits of the other pins
\* never change.
C15_Step ==
    PinModeCall # << >> =>
        LET p == PinModeCall[1]
            m == PinModeCall[2]
            port == PortOf(p)
            subscribes == m = INPUT
            unsubscribes == pin_mode[p] = INPUT /\ m # INPUT
        IN /\ wire'[1] = <<"SET_PIN_MODE", p, m>>
           /\ IF subscribes \/ unsubscribes
              THEN /\ ModeFrames = << <<"SET_PIN_MODE", p, m>>,
                                      <<"REPORT_DIGITAL_PIN", port, subscribed_ports'[port]>> >>
                   /\ wire'[2] = ModeFrames[2]
                   /\ PinBit(subscribed_ports', p) = IF subscribes THEN 1 ELSE 0
              ELSE /\ ModeFrames = << <<"SET_PIN_MODE", p, m>> >>
                   /\ subscribed_ports' = subscribed_ports
           /\ \A q \in PortPins \ {p} :
                 PinBit(subscribed_ports', q) = PinBit(subscribed_ports, q)

C15_PinModeFrames == [][C15_Step]_vars

\* C15 witness: pinMode has taken a pin out of INPUT and written the mask
\* with that pin's bit cleared, the bit of another INPUT pin staying set.
C15_Witness ==
    /\ call.op = "pinMode"
    /\ call.was = INPUT
    /\ call.arg2 = PWM
    /\ Len(wire) = 2
    /\ wire[2][1] = "REPORT_DIGITAL_PIN"
    /\ Bit(wire[2][3], call.arg1 % 8) = 0
    /\ \E q \in Pins : q # call.arg1 /\ Bit(wire[2][3], q % 8) = 1

\* C16: pinMode( p, OUTPUT ) clears p's digital_value bit exactly when p's
\* cached mode was not OUTPUT and leaves it as last written when it was;
\* pinMode to another mode leaves the bit as it is; no pinMode call, direct
\* or on an auto-correction path, changes the bit of another pin.
C16_Step ==
    /\ call'.op = "pinMode" =>
          PinBit(digital_port', call'.arg1) =
              IF call'.arg2 = OUTPUT /\ pin_mode[call'.arg1] # OUTPUT
              THEN 0
              ELSE PinBit(digital_port, call'.arg1)
    /\ PinModeCall # << >> =>
          \A q \in PortPins \ {PinModeCall[1]} :
              PinBit(digital_port', q) = PinBit(digital_port, q)

C16_OutputEntryClearsBit == [][C16_Step]_vars

\* C16 witness: pinMode( p, OUTPUT ) on a pin in OUTPUT mode has left the
\* bit written HIGH before it as it was.
C16_Witness ==
    /\ call.op = "pinMode"
    /\ call.arg2 = OUTPUT
    /\ call.was = OUTPUT
    /\ lastWritten[call.arg1] = HIGH
    /\ PinBit(digital_port, call.arg1) = 1

(***************************************************************************)
(* The claims about the whole API, checked under SpecApi.                  *)
(***************************************************************************)
\* C19: in every state reached from initialization by pinMode, analogRead,
\* analogWrite, digitalRead, digitalWrite calls and inbound reports, the bit
\* of a pin in its port's subscription mask is set if and only if the cached
\* mode of the pin is INPUT.
C19_SubscribedIffInput ==
    \A p \in Slots : (PinBit(subscribed_ports, p) = 1) <=> (pin_mode[p] = INPUT)

\* C19 witness: a pin has left INPUT through pinMode while another pin of the
\* port is in INPUT mode.
C19_Witness ==
    /\ call.op = "pinMode"
    /\ call.was = INPUT
    /\ call.arg2 # INPUT
    /\ \E q \in Slots : q # call.arg1 /\ pin_mode[q] = INPUT

(***************************************************************************)
(* The claims about interleaved callers, checked under SpecThreads.        *)
(***************************************************************************)
\* C12: under every interleaving of pinMode (also as called by analogRead,
\* analogWrite, digitalRead and digitalWrite) with getPinMode callers, the
\* mode a reader finds in the cache was stored after the SET_PIN_MODE frame
\* of the change that stored it had been written and flushed: the cached
\* mode is the last thing pinMode updates.
C12_ModeSeenOnlyAfterFrame ==
    /\ \A p \in Slots : history.announced[p]
    /\ \A t \in Callers : pc[t] = "gp_release" => frame[t].seen[2]

\* C12 witness: a reader has found INPUT, stored by a pinMode call, while
\* the transport's thread is writing a capability query.
C12_Witness ==
    \E t \in Callers :
        /\ pc[t] = "gp_release"
        /\ frame[t].seen = << INPUT, TRUE >>
        /\ pc[Transport] = "ocr_query"

\* the threads that wrote the items of buffer b, and the items
Writers(b) == { b[k][1] : k \in 1 .. Len(b) }
Items(b) == [k \in 1 .. Len(b) |-> b[k][2]]

\* the frame of one pinMode call: SET_PIN_MODE, pin, mode, and at most the
\* two REPORT_DIGITAL_PIN bytes of the pin's port after them
IsModeFrame(items) ==
    /\ Len(items) \in { 3, 5 }
    /\ items[1] = "SET_PIN_MODE"
    /\ items[2] \in Slots
    /\ items[3] \in ModeArgs
    /\ Len(items) = 5 =>
          /\ items[4] = << "REPORT_DIGITAL_PIN", PortOf(items[2]) % 16 >>
          /\ items[5] \in 0 .. 255

IsQueryFrame(items) == items = << "START_SYSEX", "CAPABILITY_QUERY", "END_SYSEX" >>

\* C13: under every interleaving of the writers (pinMode from several
\* threads, the capability query of onConnectionReady, the sends of
\* digitalWrite and analogWrite), the bytes written and not yet flushed are
\* the bytes of one thread, and what a flush puts on the wire is one whole
\* capability query or one whole pinMode frame: no byte of another
\* operation lies between the bytes of a frame.
C13_Step ==
    /\ Cardinality(Writers(firmata'.buffer)) <= 1
    /\ (firmata.buffer # << >> /\ firmata'.buffer = << >>) =>
          /\ Cardinality(Writers(firmata.buffer)) = 1
          /\ IsModeFrame(Items(firmata.buffer)) \/ IsQueryFrame(Items(firmata.buffer))
C13_FramesAreContiguous == [][C13_Step]_vars

\* C13 witness: the transport's thread has written two bytes of the
\* capability query while a caller inside pinMode waits for the protocol
\* lock and the other caller has entered digitalWrite or analogWrite.
C13_Witness ==
    \E t \in Callers, u \in Callers :
        /\ pc[Transport] = "ocr_end"
        /\ Len(firmata.buffer) = 2
        /\ pc[t] = "pm_lock"
        /\ pc[u] \in { "dw_mutex", "aw_mutex" }

(***************************************************************************)
(* The claims about the connection, checked under SpecConnect.             *)
(***************************************************************************)
\* the statements that take the device mutex, and those that take the
\* protocol object's lock
MutexLabels ==
    { "pm_mutex", "gp_mutex", "dw_mutex", "aw_mutex", "dr_mutex", "ar_mutex", "oar_mutex",
      "odr_mutex" }
ProtocolLabels == { "pm_lock", "ocr_lock", "ct_lock", "dw_send", "aw_send" }

\* t cannot take its next step until another thread releases a lock
Waiting(t) ==
    \/ pc[t] \in MutexLabels /\ ~CanLock(device_mutex, t)
    \/ pc[t] \in ProtocolLabels /\ ~CanLock(firmata, t)

\* C14: a thread that holds both the device mutex and the protocol lock took
\* the device mutex first; no API call, report callback, ready handler,
\* constructor or capability handler is about to take the device mutex while
\* it holds the protocol lock without already holding the device mutex; and
\* whenever some thread is inside an operation, some thread inside an
\* operation can take its next step, so there is no deadlock.
C14_LockOrder ==
    /\ \A t \in Threads :
          (firmata.owner = t /\ device_mutex.owner = t) => firmata.nested
    /\ \A t \in Threads :
          (pc[t] \in MutexLabels /\ firmata.owner = t) => device_mutex.owner = t
    /\ (\E t \in Threads : pc[t] # "idle") =>
          (\E t \in Threads : pc[t] # "idle" /\ ~Waiting(t))

\* C14 witness: the caller holds the device mutex and, inside it, the
\* protocol lock, with part of a pinMode frame written, while the transport's
\* thread waits for the device mutex in a report callback.
C14_Witness ==
    /\ device_mutex.owner = Owner
    /\ firmata.owner = Owner
    /\ firmata.nested
    /\ pc[Owner] = "pm_modebyte"
    /\ pc[Transport] \in { "oar_mutex", "odr_mutex" }

\* t raises DeviceReadyEvent in this step
EmitsDeviceReady(t) == pc[t] = "opc_ready" /\ pc'[t] # "opc_ready"

\* C17: in both construction modes, DeviceReady is raised only after a
\* capability query has been written and flushed and a capability response
\* has been parsed, and at the moment it is raised every cached mode is
\* OUTPUT and every digital value, subscription mask and analog value is
\* zero, also on a re-negotiation and with API calls running concurrently.
C17_Step ==
    \A t \in Threads :
        EmitsDeviceReady(t) =>
            /\ history.queries >= 1
            /\ data = frame[t].seen
            /\ total_pins = Scan(data).total_pins
            /\ pin_mode = InitialCache.pin_mode
            /\ digital_port = InitialCache.digital_port
            /\ subscribed_ports = InitialCache.subscribed_ports
            /\ analog_pins = InitialCache.analog_pins
C17_ReadyOnlyOnFreshCache == [][C17_Step]_vars

\* the transport's thread executes the statement at one of labels
Executes(labels) == pc[Transport] \in labels /\ pc'[Transport] # pc[Transport]

\* C18: Failed and Lost are terminal: handling the signal reports
\* DeviceConnectionFailed or DeviceConnectionLost upward, and once one of
\* them has been handled no later ready signal or capability response makes
\* the device write a capability query, re-initialize the cache or raise
\* DeviceReady.
C18_Step ==
    /\ Executes({ "ocf_event" }) => events' = << <<"DeviceConnectionFailed", NoPin, NoValue>> >>
    /\ Executes({ "ocl_event" }) => events' = << <<"DeviceConnectionLost", NoPin, NoValue>> >>
    /\ history.ended =>
          /\ ~Executes({ "ocr_start", "ocr_query", "ocr_end" })
          /\ ~Executes({ "ini_digital", "ini_subscribed", "ini_analog", "ini_mode" })
          /\ ~Executes({ "opc_ready" })
C18_FailedAndLostAreTerminal == [][C18_Step]_vars

\* C20: after any number of ready signals and capability responses on one
\* device, one capability response runs the parse, the initialization and
\* the DeviceReady emission once, and one inbound report is handled once
\* (one analog report raises one notification): when the handler of a
\* response or report has run, the transport's thread is done with it, and
\* nothing was raised for it before.
C20_Step ==
    /\ Executes({ "opc_ready" }) => (frame[Transport].raised = 0 /\ pc'[Transport] = "idle")
    /\ Executes({ "oar_event" }) => (frame[Transport].raised = 0 /\ pc'[Transport] = "idle")
    /\ Executes({ "odr_events" }) => pc'[Transport] = "idle"
C20_HandledExactlyOnce == [][C20_Step]_vars

====
